---------------------------- MODULE Spec2Model ----------------------------
(***************************************************************************)
(* MobiFlow hub optimiser (src/hub_optimiser.py): the nearest-reference    *)
(* finder, the hub score calculator and the candidate grid search.         *)
(*                                                                         *)
(* Units.  Coordinates are integers in 1e-4 degree (53.3464 is 533464),    *)
(* distances are whole metres, unrounded scores are integers in 1e-4 score *)
(* point ("ticks"), and the scores round(x, 2) returns are integers in     *)
(* 1e-2 score point.  Ratios in [0, 1] are integers in 1e-4 (1.0 is 10000).*)
(***************************************************************************)
EXTENDS Integers, Sequences, FiniteSets, TLC

VARIABLES
    pc,                  \* position of the operation in progress
    lat, lng,            \* calculate_distance_to_transport: the point
    transport_df,        \* calculate_distance_to_transport: the reference rows
    scanned,             \* rows of transport_df the loop has visited
    min_distance,        \* local of calculate_distance_to_transport
    nearest_transport,   \* local of calculate_distance_to_transport
    proximity,           \* what calculate_distance_to_transport returned
    bikes_df, bus_df, luas_df,   \* HubScoreCalculator's datasets
    score_call,          \* the last calculate_hub_score call: point, locals, return
    cache_db,            \* the rows of the collector's in-memory cache tables
    num_locations,       \* generate_hub_recommendations: its argument
    candidate_locations, \* generate_hub_recommendations: the lattice
    results,             \* generate_hub_recommendations: the scored rows
    recommendations_df,  \* generate_hub_recommendations: what it returned
    tie_order            \* the tie order the unstable sort happened to produce

vars == <<pc, lat, lng, transport_df, scanned, min_distance, nearest_transport,
          proximity, bikes_df, bus_df, luas_df, score_call, cache_db,
          num_locations, candidate_locations, results, recommendations_df,
          tie_order>>

nearest_vars == <<lat, lng, transport_df, scanned, min_distance,
                  nearest_transport, proximity>>
score_vars == <<bikes_df, bus_df, luas_df, score_call, cache_db>>
grid_vars == <<num_locations, candidate_locations, results,
               recommendations_df, tie_order>>

---------------------------------------------------------------------------
(* Bounds of the model. *)

\* Longest reference sequence handed to the nearest-reference finder.
MaxRefs == 2
\* Most rows of one dataset handed to a HubScoreCalculator.
MaxRows == 2

---------------------------------------------------------------------------
(* Arithmetic helpers. *)

Min(a, b) == IF a <= b THEN a ELSE b
Max(a, b) == IF a >= b THEN a ELSE b
Abs(a) == IF a < 0 THEN -a ELSE a

RECURSIVE SqrtBetween(_, _, _)
\* The largest r in lo..hi with r*r <= n (lo*lo <= n < (hi+1)*(hi+1)).
SqrtBetween(n, lo, hi) ==
    IF lo >= hi THEN lo
    ELSE LET mid == (lo + hi + 1) \div 2
         IN  IF mid * mid <= n THEN SqrtBetween(n, mid, hi)
             ELSE SqrtBetween(n, lo, mid - 1)

\* float('inf'): above every geodesic distance on Earth (at most 20,004 km).
Inf == 21000000

\* Centimetres of one 1e-4 degree of latitude, and of longitude, at Dublin.
LatCm == 1113
LngCm == 665
\* No two modelled points are further apart than this many metres.
MaxMeters == 32767

\* geodesic((lat1, lng1), (lat2, lng2)).meters, in whole metres.
geodesic_meters(lat1, lng1, lat2, lng2) ==
    LET dy == (Abs(lat1 - lat2) * LatCm) \div 100
        dx == (Abs(lng1 - lng2) * LngCm) \div 100
    IN  SqrtBetween(dy * dy + dx * dx, 0, MaxMeters)

\* round(x, 2) of a value in ticks: the nearest 1e-2, halves to the even one.
Round2(x) ==
    LET q == x \div 100
        r == x % 100
    IN  IF r < 50 THEN q
        ELSE IF r > 50 THEN q + 1
        ELSE IF q % 2 = 0 THEN q ELSE q + 1

---------------------------------------------------------------------------
(* The datasets: rows of the DataFrames the collector builds. *)

\* The quotient a / b of two integer columns of a DataFrame, in 1e-4.  The
\* division of a pandas Series raises nothing on a zero divisor: the float is
\* inf (-inf) for a positive (negative) dividend and NaN for 0 / 0.
SeriesDivide(a, b) ==
    IF b # 0 THEN [finite |-> TRUE, ratio |-> (a * 10000) \div b]
    ELSE IF a > 0 THEN [finite |-> FALSE, float |-> "inf"]
    ELSE IF a < 0 THEN [finite |-> FALSE, float |-> "-inf"]
    ELSE [finite |-> FALSE, float |-> "nan"]

BikeRow(id, name, la, lo, bikes, stands, capacity) ==
    [station_id |-> id, name |-> name, latitude |-> la, longitude |-> lo,
     available_bikes |-> bikes, available_stands |-> stands,
     total_capacity |-> capacity,
     utilization_rate |-> SeriesDivide(bikes, capacity),
     availability_score |-> bikes + stands]

BusRow(id, name, la, lo, route_count) ==
    [stop_id |-> id, stop_name |-> name, latitude |-> la, longitude |-> lo,
     route_count |-> route_count, major_hub |-> route_count >= 4]

LuasRow(name, la, lo, line) ==
    [station_name |-> name, latitude |-> la, longitude |-> lo, line |-> line,
     is_interchange |-> name \in {"Abbey Street", "Westmoreland"}]

\* get_bus_stops_data: the eleven sample stops.
SampleBusStops ==
    << BusRow("1001", "Heuston Station", 533468, -62928, 4),
       BusRow("1002", "Smithfield", 533478, -62792, 3),
       BusRow("1003", "Trinity College", 533442, -62540, 4),
       BusRow("1004", "Merrion Square", 533382, -62534, 3),
       BusRow("1005", "Dame Street", 533437, -62671, 4),
       BusRow("1006", "IFSC", 533501, -62395, 2),
       BusRow("1007", "Grand Canal Dock", 533394, -62348, 3),
       BusRow("1008", "St. Stephen's Green", 533390, -62610, 4),
       BusRow("1009", "Rathmines", 533253, -62639, 3),
       BusRow("1010", "Parnell Square", 533530, -62645, 4),
       BusRow("1011", "Drumcondra", 533715, -62570, 3) >>

\* get_luas_stations_data: the eight sample stations.
SampleLuasStations ==
    << LuasRow("St. Stephen's Green", 533387, -62613, "Green"),
       LuasRow("Trinity", 533447, -62589, "Green"),
       LuasRow("Westmoreland", 533450, -62589, "Green"),
       LuasRow("Abbey Street", 533484, -62589, "Green"),
       LuasRow("Heuston", 533467, -62929, "Red"),
       LuasRow("Museum", 533474, -62867, "Red"),
       LuasRow("Smithfield", 533475, -62785, "Red"),
       LuasRow("Four Courts", 533467, -62743, "Red") >>

\* _get_sample_dublin_bikes_data: the eleven sample stations.  The rush-hour
\* factor moves bikes to stands and back; adjusted_stands is capacity minus
\* adjusted_bikes, so every hour gives availability_score = capacity.
SampleBikeStations ==
    << BikeRow(1, "Heuston Station", 533464, -62921, 5, 15, 20),
       BikeRow(2, "Smithfield", 533475, -62785, 2, 13, 15),
       BikeRow(3, "Merrion Square East", 533379, -62537, 7, 13, 20),
       BikeRow(4, "Trinity College", 533439, -62546, 12, 13, 25),
       BikeRow(5, "Dame Street", 533434, -62674, 3, 17, 20),
       BikeRow(6, "IFSC", 533498, -62398, 8, 12, 20),
       BikeRow(7, "Grand Canal Dock", 533391, -62351, 15, 10, 25),
       BikeRow(8, "St. Stephen's Green", 533387, -62613, 6, 14, 20),
       BikeRow(9, "Rathmines", 533250, -62642, 4, 11, 15),
       BikeRow(10, "Parnell Square", 533527, -62648, 9, 11, 20),
       BikeRow(11, "Drumcondra", 533712, -62573, 7, 8, 15) >>

\* The sequences of at most n distinct rows of pool, in every order.
RECURSIVE OrderedRows(_, _)
OrderedRows(pool, n) ==
    IF n = 0 THEN {<<>>}
    ELSE LET shorter == OrderedRows(pool, n - 1)
             longer == {Append(s, r) : s \in shorter, r \in pool}
         IN  shorter \cup
             {s \in longer : \A a, b \in 1..Len(s) : a # b => s[a] # s[b]}

\* The points the operations are called with: main()'s sample locations, the
\* Trinity College point, a point midway between the Heuston and Four Courts
\* Luas stops, and a point some 5 km west of every dataset.
Points ==
    { <<533475, -62785>>, <<533495, -62400>>, <<533550, -63000>>,
      <<533300, -62300>>, <<533250, -62642>>, <<533440, -62545>>,
      <<533467, -62836>>, <<533440, -63700>> }

---------------------------------------------------------------------------
(* MobilityDataCollector.calculate_distance_to_transport *)

\* Python's None.
None == [none |-> TRUE]
\* An exception leaving a function.
Raised(error) == [ok |-> FALSE, error |-> error]
\* No call has returned yet.
NoReturn == [ok |-> FALSE, error |-> "no call"]

\* The locals before the loop: min_distance and nearest_transport.
ScanStart == [min_distance |-> Inf, nearest_transport |-> None]

\* A loop body that also takes a row at the same distance (not the code's).
ScanStepTakesEqual(st, la, lo, transport) ==
    LET distance == geodesic_meters(la, lo, transport.latitude, transport.longitude)
    IN  IF distance <= st.min_distance
        THEN [min_distance |-> distance, nearest_transport |-> transport]
        ELSE st

\* A loop body that keeps the first row it saw (not the code's).
ScanStepKeepsFirst(st, la, lo, transport) ==
    LET distance == geodesic_meters(la, lo, transport.latitude, transport.longitude)
    IN  IF st.nearest_transport = None
        THEN [min_distance |-> distance, nearest_transport |-> transport]
        ELSE st

\* One iteration of the loop over transport_df.iterrows().
ScanStep(st, la, lo, transport) ==
    LET distance == geodesic_meters(la, lo, transport.latitude, transport.longitude)
    IN  IF distance < st.min_distance
        THEN [min_distance |-> distance, nearest_transport |-> transport]
        ELSE st

RECURSIVE ScanFrom(_, _, _, _, _)
\* The loop from row k on: every row is visited, there is no break.
ScanFrom(st, la, lo, df, k) ==
    IF k > Len(df) THEN st
    ELSE ScanFrom(ScanStep(st, la, lo, df[k]), la, lo, df, k + 1)

\* A label lookup that reads the bus dataset's column too (not the code's).
StationLabelReadsStopName(transport) ==
    IF "name" \in DOMAIN transport THEN transport.name
    ELSE IF "station_name" \in DOMAIN transport THEN transport.station_name
    ELSE IF "stop_name" \in DOMAIN transport THEN transport.stop_name
    ELSE "Unknown"

\* nearest_transport['name'] if 'name' in nearest_transport
\* else nearest_transport.get('station_name', 'Unknown')
StationLabel(transport) ==
    IF "name" \in DOMAIN transport THEN transport.name
    ELSE IF "station_name" \in DOMAIN transport THEN transport.station_name
    ELSE "Unknown"

\* A return statement that guards None with a label (not the code's).
ProximityOfGuarded(st) ==
    [ok |-> TRUE,
     distance_meters |-> st.min_distance,
     nearest_station |-> IF st.nearest_transport = None THEN "Unknown"
                         ELSE StationLabel(st.nearest_transport),
     within_500m |-> st.min_distance <= 500,
     within_200m |-> st.min_distance <= 200]

\* The return statement.  With no row visited nearest_transport is None and
\* 'name' in None raises TypeError before any record is built.
ProximityOf(st) ==
    IF st.nearest_transport = None THEN Raised("TypeError")
    ELSE [ok |-> TRUE,
          distance_meters |-> st.min_distance,
          nearest_station |-> StationLabel(st.nearest_transport),
          within_500m |-> st.min_distance <= 500,
          within_200m |-> st.min_distance <= 200]

calculate_distance_to_transport(la, lo, df) ==
    ProximityOf(ScanFrom(ScanStart, la, lo, df, 1))

---------------------------------------------------------------------------
(* The nearest-reference finder, one loop iteration at a time. *)

\* The rows the finder is called with: bus stops or Luas stations.
BusRefPool == {SampleBusStops[k] : k \in {1, 2, 3}}
LuasRefPool == {SampleLuasStations[k] : k \in {5, 7, 8}}
ReferenceSets == OrderedRows(BusRefPool, MaxRefs) \cup OrderedRows(LuasRefPool, MaxRefs)

\* _setup_cache_database: three tables are created and no row is inserted.
_setup_cache_database == [dublin_bikes |-> <<>>, bus_stops |-> <<>>, hub_scores |-> <<>>]

ScoreIdle ==
    /\ bikes_df = <<>> /\ bus_df = <<>> /\ luas_df = <<>>
    /\ score_call = [ret |-> NoReturn]
    /\ cache_db = _setup_cache_database

GridIdle ==
    /\ num_locations = 0 /\ candidate_locations = <<>> /\ results = <<>>
    /\ recommendations_df = <<>> /\ tie_order = 0

NearestIdle ==
    /\ lat = 0 /\ lng = 0 /\ transport_df = <<>> /\ scanned = 0
    /\ min_distance = Inf /\ nearest_transport = None
    /\ proximity = NoReturn

InitNearest ==
    /\ pc = "idle"
    /\ NearestIdle /\ ScoreIdle /\ GridIdle

\* The call: the arguments are bound and the locals initialised.
NearestCall(p, df) ==
    /\ pc \in {"idle", "returned", "raised"}
    /\ lat' = p[1] /\ lng' = p[2] /\ transport_df' = df
    /\ scanned' = 0
    /\ min_distance' = ScanStart.min_distance
    /\ nearest_transport' = ScanStart.nearest_transport
    /\ proximity' = NoReturn
    /\ pc' = "scan"
    /\ UNCHANGED <<score_vars, grid_vars>>

\* One iteration of the for loop.
NearestIterate ==
    /\ pc = "scan"
    /\ scanned < Len(transport_df)
    /\ LET st == ScanStep([min_distance |-> min_distance,
                           nearest_transport |-> nearest_transport],
                          lat, lng, transport_df[scanned + 1])
       IN  /\ min_distance' = st.min_distance
           /\ nearest_transport' = st.nearest_transport
    /\ scanned' = scanned + 1
    /\ UNCHANGED <<pc, lat, lng, transport_df, proximity, score_vars, grid_vars>>

\* The loop is exhausted: the return statement.
NearestReturn ==
    /\ pc = "scan"
    /\ scanned = Len(transport_df)
    /\ proximity' = ProximityOf([min_distance |-> min_distance,
                                 nearest_transport |-> nearest_transport])
    /\ pc' = IF proximity'.ok THEN "returned" ELSE "raised"
    /\ UNCHANGED <<lat, lng, transport_df, scanned, min_distance,
                   nearest_transport, score_vars, grid_vars>>

NextNearest ==
    \/ \E p \in Points, df \in ReferenceSets : NearestCall(p, df)
    \/ NearestIterate
    \/ NearestReturn

SpecNearest == InitNearest /\ [][NextNearest]_vars

\* The distance from the finder's point to row k of its reference rows.
RefDistance(k) ==
    geodesic_meters(lat, lng, transport_df[k].latitude, transport_df[k].longitude)

---------------------------------------------------------------------------
(* HubScoreCalculator *)

RECURSIVE DemandFrom(_, _, _, _, _)
\* The loop of _calculate_bike_demand from row k on.  nearby_demand is in
\* 1e-3: availability_score * max(0, 1 - distance / 1000).
DemandFrom(acc, la, lo, df, k) ==
    IF k > Len(df) THEN acc
    ELSE LET station == df[k]
             distance == geodesic_meters(la, lo, station.latitude, station.longitude)
             next == IF distance <= 1000
                     THEN [nearby_demand |-> acc.nearby_demand
                               + station.availability_score * Max(0, 1000 - distance),
                           station_count |-> acc.station_count + 1]
                     ELSE acc
         IN  DemandFrom(next, la, lo, df, k + 1)

\* A bike demand whose loop assigns nearby_demand where the code adds to it,
\* so that the last station within 1000 m alone counts (not the code's).
BikeDemandKeepsLast(la, lo, bikes) ==
    LET within == {k \in 1..Len(bikes) :
                     geodesic_meters(la, lo, bikes[k].latitude, bikes[k].longitude) <= 1000}
        last == CHOOSE k \in within : \A j \in within : j <= k
    IN  IF within = {} THEN 0
        ELSE (bikes[last].availability_score
                * Max(0, 1000 - geodesic_meters(la, lo, bikes[last].latitude,
                                                bikes[last].longitude)))
             \div Cardinality(within)

\* A bike demand divided by the number of all rows, not of the stations
\* within 1000 m (not the code's).
BikeDemandOverAllRows(la, lo, bikes) ==
    LET acc == DemandFrom([nearby_demand |-> 0, station_count |-> 0], la, lo, bikes, 1)
    IN  acc.nearby_demand \div Max(Len(bikes), 1)

\* _calculate_bike_demand, in 1e-3: nearby_demand / max(station_count, 1).
_calculate_bike_demand(la, lo, bikes) ==
    LET acc == DemandFrom([nearby_demand |-> 0, station_count |-> 0], la, lo, bikes, 1)
    IN  acc.nearby_demand \div Max(acc.station_count, 1)

RECURSIVE MinDistanceFrom(_, _, _, _, _)
\* min_distance = min(min_distance, distance) over the rows from k on.
MinDistanceFrom(m, la, lo, df, k) ==
    IF k > Len(df) THEN m
    ELSE MinDistanceFrom(
             Min(m, geodesic_meters(la, lo, df[k].latitude, df[k].longitude)),
             la, lo, df, k + 1)

\* A gap that is not clamped (not the code's).
GapOfDistancesUnclamped(min_bike_distance, min_bus_distance) ==
    LET bike_gap == min_bike_distance * 10
        bus_gap == min_bus_distance * 20
    IN  [bike_gap |-> bike_gap, bus_gap |-> bus_gap,
         gap |-> (bike_gap + bus_gap) \div 2]

\* A gap whose bike term falls with the distance (not the code's).
GapOfDistancesInverted(min_bike_distance, min_bus_distance) ==
    LET bike_gap == Max(0, 10000 - min_bike_distance * 10)
        bus_gap == Min(10000, min_bus_distance * 20)
    IN  [bike_gap |-> bike_gap, bus_gap |-> bus_gap,
         gap |-> (bike_gap + bus_gap) \div 2]

\* bike_gap = min(1.0, min_bike_distance / 1000), bus_gap = min(1.0,
\* min_bus_distance / 500) and their mean, in 1e-4.
GapOfDistances(min_bike_distance, min_bus_distance) ==
    LET bike_gap == Min(10000, min_bike_distance * 10)
        bus_gap == Min(10000, min_bus_distance * 20)
    IN  [bike_gap |-> bike_gap, bus_gap |-> bus_gap,
         gap |-> (bike_gap + bus_gap) \div 2]

\* The locals of _calculate_infrastructure_gap and what it returns (gap).
InfrastructureGap(la, lo, bikes, bus) ==
    LET min_bike_distance == MinDistanceFrom(Inf, la, lo, bikes, 1)
        min_bus_distance == MinDistanceFrom(Inf, la, lo, bus, 1)
        g == GapOfDistances(min_bike_distance, min_bus_distance)
    IN  [min_bike_distance |-> min_bike_distance,
         min_bus_distance |-> min_bus_distance,
         bike_gap |-> g.bike_gap, bus_gap |-> g.bus_gap, gap |-> g.gap]

_calculate_infrastructure_gap(la, lo, bikes, bus) ==
    InfrastructureGap(la, lo, bikes, bus).gap

\* key_locations: city centre, Temple Bar, St. Stephen's Green.
key_locations == << <<533498, -62603>>, <<533446, -62691>>, <<533387, -62613>> >>

\* _calculate_accessibility_score, in 1e-4:
\* max(0, 1 - min_distance_to_amenity / 2000).
_calculate_accessibility_score(la, lo) ==
    LET ds == {geodesic_meters(la, lo, key_locations[k][1], key_locations[k][2]) :
                   k \in 1..Len(key_locations)}
        min_distance_to_amenity == CHOOSE d \in ds : \A e \in ds : d <= e
    IN  Max(0, 10000 - 5 * min_distance_to_amenity)

\* A bus part that is not clamped at 0 (not the code's).
BusContributionUnclamped(bus_proximity) ==
    IF bus_proximity.within_200m THEN 150000
    ELSE IF bus_proximity.within_500m THEN 100000
    ELSE 100000 - (bus_proximity.distance_meters - 500) * 100

\* The bus part of transport_score, in ticks.
BusContribution(bus_proximity) ==
    IF bus_proximity.within_200m THEN 150000
    ELSE IF bus_proximity.within_500m THEN 100000
    ELSE Max(0, 100000 - (bus_proximity.distance_meters - 500) * 100)

\* A Luas part that is not clamped at 0 (not the code's).
LuasContributionUnclamped(luas_proximity) ==
    IF luas_proximity.within_500m THEN 200000
    ELSE 150000 - (luas_proximity.distance_meters - 500) * 100

\* The Luas part of transport_score, in ticks.
LuasContribution(luas_proximity) ==
    IF luas_proximity.within_500m THEN 200000
    ELSE Max(0, 150000 - (luas_proximity.distance_meters - 500) * 100)

\* population_score = 5, in ticks.
population_score == 50000

\* A breakdown whose total leaves the population score out (not the code's).
ScoreBreakdownWithoutPopulation(la, lo, bikes, bus, bus_proximity, luas_proximity) ==
    LET transport_score == BusContribution(bus_proximity) + LuasContribution(luas_proximity)
        bike_demand == _calculate_bike_demand(la, lo, bikes)
        demand_score == Min((bike_demand * 25) \div 2, 250000)
        gap_score == _calculate_infrastructure_gap(la, lo, bikes, bus) * 20
        accessibility_score == _calculate_accessibility_score(la, lo) * 15
        total_score == transport_score + demand_score + gap_score
                           + accessibility_score
    IN  [ok |-> TRUE,
         total_score |-> Round2(total_score),
         transport_score |-> Round2(transport_score),
         demand_score |-> Round2(demand_score),
         gap_score |-> Round2(gap_score),
         accessibility_score |-> Round2(accessibility_score),
         population_score |-> Round2(population_score),
         components |-> [nearest_bus |-> bus_proximity.nearest_station,
                         bus_distance |-> bus_proximity.distance_meters,
                         nearest_luas |-> luas_proximity.nearest_station,
                         luas_distance |-> luas_proximity.distance_meters,
                         bike_demand |-> bike_demand]]

\* The record calculate_hub_score returns once both lookups have returned.
ScoreBreakdown(la, lo, bikes, bus, bus_proximity, luas_proximity) ==
    LET transport_score == BusContribution(bus_proximity) + LuasContribution(luas_proximity)
        bike_demand == _calculate_bike_demand(la, lo, bikes)
        demand_score == Min((bike_demand * 25) \div 2, 250000)
        gap_score == _calculate_infrastructure_gap(la, lo, bikes, bus) * 20
        accessibility_score == _calculate_accessibility_score(la, lo) * 15
        total_score == transport_score + demand_score + gap_score
                           + accessibility_score + population_score
    IN  [ok |-> TRUE,
         total_score |-> Round2(total_score),
         transport_score |-> Round2(transport_score),
         demand_score |-> Round2(demand_score),
         gap_score |-> Round2(gap_score),
         accessibility_score |-> Round2(accessibility_score),
         population_score |-> Round2(population_score),
         components |-> [nearest_bus |-> bus_proximity.nearest_station,
                         bus_distance |-> bus_proximity.distance_meters,
                         nearest_luas |-> luas_proximity.nearest_station,
                         luas_distance |-> luas_proximity.distance_meters,
                         bike_demand |-> bike_demand]]

\* calculate_hub_score: the two lookups, whose exception it lets through, and
\* the breakdown.  The record keeps, beside what the call returned (ret), the
\* call's point, the datasets it read and its locals.
calculate_hub_score(la, lo, bikes, bus, luas) ==
    LET bus_proximity == calculate_distance_to_transport(la, lo, bus)
        luas_proximity == IF bus_proximity.ok
                          THEN calculate_distance_to_transport(la, lo, luas)
                          ELSE NoReturn
    IN  [lat |-> la, lng |-> lo,
         bikes |-> bikes, bus |-> bus, luas |-> luas,
         bus_proximity |-> bus_proximity,
         luas_proximity |-> luas_proximity,
         gap_locals |-> InfrastructureGap(la, lo, bikes, bus),
         ret |-> IF ~bus_proximity.ok THEN bus_proximity
                 ELSE IF ~luas_proximity.ok THEN luas_proximity
                 ELSE ScoreBreakdown(la, lo, bikes, bus, bus_proximity, luas_proximity)]

\* No calculate_hub_score call has been made.
NoCall == [ret |-> NoReturn]

---------------------------------------------------------------------------
(* A calculator over small datasets, scored at the points. *)

BikePool == {SampleBikeStations[k] : k \in {2, 3, 4}}
BusPool == {SampleBusStops[k] : k \in {1, 3}}
LuasPool == {SampleLuasStations[k] : k \in {1, 7}}

\* HubScoreCalculator.__init__ over datasets of at most MaxRows rows.
Init ==
    /\ pc = "calculator"
    /\ bikes_df \in OrderedRows(BikePool, MaxRows)
    /\ bus_df \in OrderedRows(BusPool, MaxRows)
    /\ luas_df \in OrderedRows(LuasPool, MaxRows)
    /\ score_call = NoCall
    /\ cache_db = _setup_cache_database
    /\ NearestIdle /\ GridIdle

\* calculator.calculate_hub_score(lat, lng)
ScoreCall(p) ==
    /\ pc = "calculator"
    /\ score_call' = calculate_hub_score(p[1], p[2], bikes_df, bus_df, luas_df)
    /\ UNCHANGED <<pc, bikes_df, bus_df, luas_df, cache_db, nearest_vars, grid_vars>>

\* df with rows k and k + 1 exchanged.
SwapRows(df, k) ==
    [j \in 1..Len(df) |-> IF j = k THEN df[k + 1] ELSE IF j = k + 1 THEN df[k] ELSE df[j]]

\* A calculator built over the same datasets with two neighbouring rows of one
\* of them exchanged, its collector's cache tables created anew and empty; the
\* caller still holds the last result.
Reorder ==
    /\ pc = "calculator"
    /\ \/ \E k \in 1..(Len(bikes_df) - 1) :
             bikes_df' = SwapRows(bikes_df, k) /\ UNCHANGED <<bus_df, luas_df>>
       \/ \E k \in 1..(Len(bus_df) - 1) :
             bus_df' = SwapRows(bus_df, k) /\ UNCHANGED <<bikes_df, luas_df>>
       \/ \E k \in 1..(Len(luas_df) - 1) :
             luas_df' = SwapRows(luas_df, k) /\ UNCHANGED <<bikes_df, bus_df>>
    /\ cache_db' = _setup_cache_database
    /\ UNCHANGED <<pc, score_call, nearest_vars, grid_vars>>

Next ==
    \/ \E p \in Points : ScoreCall(p)
    \/ Reorder

Spec == Init /\ [][Next]_vars

---------------------------------------------------------------------------
(* generate_hub_recommendations *)

\* The grid is range(20) by range(20).
Resolution == 20

\* dublin_bounds of the grid search.
dublin_bounds == [north |-> 533700, south |-> 533200, east |-> -62200, west |-> -63000]

\* Steps of a lattice that reaches the north and east edges (not the code's).
lat_step_inclusive == (dublin_bounds.north - dublin_bounds.south) \div (Resolution - 1)
lng_step_inclusive == (dublin_bounds.east - dublin_bounds.west) \div (Resolution - 1)

lat_step == (dublin_bounds.north - dublin_bounds.south) \div Resolution
lng_step == (dublin_bounds.east - dublin_bounds.west) \div Resolution

\* The point appended in iteration (i, j) of the nested loops.
LatticePoint(i, j) ==
    <<dublin_bounds.south + i * lat_step, dublin_bounds.west + j * lng_step>>

\* The row appended to results for a scored candidate.
ResultRow(la, lo, score_data) ==
    [latitude |-> la, longitude |-> lo,
     hub_score |-> score_data.total_score,
     transport_score |-> score_data.transport_score,
     demand_score |-> score_data.demand_score,
     gap_score |-> score_data.gap_score,
     accessibility_score |-> score_data.accessibility_score,
     nearest_bus |-> score_data.components.nearest_bus,
     nearest_luas |-> score_data.components.nearest_luas,
     bike_demand |-> score_data.components.bike_demand]

\* Where row a of n rows stands among the rows of its own hub_score.  The
\* sort is pandas' default quicksort, which promises no order among equal
\* keys: order 0 is the order a stable sort would give, 1 its reverse, and the
\* further orders are these two rotated.
TieKey(order, a, n) ==
    IF order % 2 = 0 THEN (a - 1 + order \div 2) % n
    ELSE (n - a + order \div 2) % n

\* sort_values with ascending left at its default, True (not the code's).
SortValuesAscending(rows, order) ==
    LET n == Len(rows)
        key == [a \in 1..n |-> rows[a].hub_score * n + TieKey(order, a, n)]
        Before(a, b) == key[a] < key[b]
        at == SortSeq([a \in 1..n |-> a], Before)
    IN  [r \in 1..n |-> rows[at[r]]]

\* sort_values('hub_score', ascending=False): the rows by falling hub_score,
\* equal scores in the tie order the sort happened to produce.  Row a sorts
\* on the key hub_score * n + (n - 1 - TieKey), which no two rows share.
SortValuesDescending(rows, order) ==
    LET n == Len(rows)
        key == [a \in 1..n |-> rows[a].hub_score * n + (n - 1 - TieKey(order, a, n))]
        Before(a, b) == key[a] > key[b]
        at == SortSeq([a \in 1..n |-> a], Before)
    IN  [r \in 1..n |-> rows[at[r]]]

\* DataFrame.head(n): the first n rows, or all but the last -n when n < 0.
head(rows, n) ==
    IF n >= 0 THEN SubSeq(rows, 1, Min(n, Len(rows)))
    ELSE SubSeq(rows, 1, Max(0, Len(rows) + n))

---------------------------------------------------------------------------
(* The grid search, one loop iteration at a time. *)

\* Largest small num_locations tried.
MaxTopK == 2
\* Largest tie order of the sort tried.
MaxTieOrder == 1
\* Most stations in a live answer of the bike API.
MaxApiStations == 1

\* The num_locations the search is called with: small ones, one that asks for
\* all but the last row, and ones around the size of the lattice.
TopKs ==
    (-1..MaxTopK) \cup {Resolution * Resolution - 1, Resolution * Resolution,
                        Resolution * Resolution + MaxTopK}

\* The "stands" of the eleven sample station literals.
SampleStands == <<10, 8, 5, 8, 17, 12, 5, 14, 11, 11, 8>>

\* _process_dublin_bikes_data over a live answer that lists the first n
\* stations with the bikes and stands of the sample literals:
\* availability_score is available_bikes + available_bike_stands.
ApiBikeStations(n) ==
    [k \in 1..n |->
        LET station == SampleBikeStations[k]
        IN  BikeRow(station.station_id, station.name, station.latitude,
                    station.longitude, station.available_bikes,
                    SampleStands[k], station.total_capacity)]

\* _process_dublin_bikes_data over a live answer that lists a closed station
\* with bike_stands = 0 (no bikes, no free stands) before the first n stations.
ApiClosedStation(n) ==
    <<BikeRow(12, "Parnell Street", 533508, -62652, 0, 0, 0)>> \o ApiBikeStations(n)

\* get_dublin_bikes_data: a live answer, or the sample data when the request
\* fails.
BikeFeeds ==
    {SampleBikeStations}
        \cup {ApiBikeStations(n) : n \in 1..MaxApiStations}
        \cup {ApiClosedStation(MaxApiStations)}

InitGrid ==
    /\ pc = "lattice"
    /\ num_locations \in TopKs
    /\ bikes_df \in BikeFeeds
    /\ bus_df = SampleBusStops
    /\ luas_df = SampleLuasStations
    /\ score_call = NoCall
    /\ cache_db = _setup_cache_database
    /\ candidate_locations = <<>> /\ results = <<>>
    /\ recommendations_df = <<>> /\ tie_order = 0
    /\ NearestIdle

\* One iteration of the nested loops over i and j.
LatticeAppend ==
    /\ pc = "lattice"
    /\ LET i == Len(candidate_locations) \div Resolution
           j == Len(candidate_locations) % Resolution
       IN  candidate_locations' = Append(candidate_locations, LatticePoint(i, j))
    /\ pc' = IF Len(candidate_locations') = Resolution * Resolution
             THEN "scoring" ELSE "lattice"
    /\ UNCHANGED <<nearest_vars, score_vars, num_locations, results,
                   recommendations_df, tie_order>>

\* A scoring loop that files every score in the hub_scores cache table (not
\* the code's, which never writes to it).
ScoreCandidateCached ==
    /\ pc = "scoring"
    /\ LET p == candidate_locations[Len(results) + 1]
           call == calculate_hub_score(p[1], p[2], bikes_df, bus_df, luas_df)
       IN  IF call.ret.ok
           THEN /\ results' = Append(results, ResultRow(p[1], p[2], call.ret))
                /\ cache_db' = [cache_db EXCEPT
                       !.hub_scores = Append(@, <<p[1], p[2], call.ret.total_score>>)]
                /\ pc' = IF Len(results') = Len(candidate_locations)
                         THEN "sort" ELSE "scoring"
           ELSE /\ results' = results
                /\ cache_db' = cache_db
                /\ pc' = "raised"
    /\ UNCHANGED <<nearest_vars, bikes_df, bus_df, luas_df, score_call,
                   num_locations, candidate_locations, recommendations_df,
                   tie_order>>

\* One iteration of the loop over candidate_locations; an exception of
\* calculate_hub_score leaves the function.
ScoreCandidate ==
    /\ pc = "scoring"
    /\ LET p == candidate_locations[Len(results) + 1]
           call == calculate_hub_score(p[1], p[2], bikes_df, bus_df, luas_df)
       IN  IF call.ret.ok
           THEN /\ results' = Append(results, ResultRow(p[1], p[2], call.ret))
                /\ pc' = IF Len(results') = Len(candidate_locations)
                         THEN "sort" ELSE "scoring"
           ELSE /\ results' = results
                /\ pc' = "raised"
    /\ UNCHANGED <<nearest_vars, score_vars, num_locations, candidate_locations,
                   recommendations_df, tie_order>>

\* sort_values, head and reset_index, and the return.
SortAndReturn(order) ==
    /\ pc = "sort"
    /\ tie_order' = order
    /\ recommendations_df' = head(SortValuesDescending(results, order), num_locations)
    /\ pc' = "done"
    /\ UNCHANGED <<nearest_vars, score_vars, num_locations, candidate_locations,
                   results>>

NextGrid ==
    \/ LatticeAppend
    \/ ScoreCandidate
    \/ \E order \in 0..MaxTieOrder : SortAndReturn(order)

SpecGrid == InitGrid /\ [][NextGrid]_vars

---------------------------------------------------------------------------
(* A pass of scoring calls on one calculator, points repeated at will. *)

\* Most calls of one pass.
MaxPass == 3

\* The points of a pass: two of main()'s sample locations, the Trinity College
\* point and the point midway between two Luas stops.
PassPoints ==
    { <<533475, -62785>>, <<533495, -62400>>, <<533440, -62545>>,
      <<533467, -62836>> }

\* The lists of at most MaxPass points a pass scores in turn.
Passes == UNION {[1..n -> PassPoints] : n \in 1..MaxPass}

\* The collector and the calculator are built and the list of points is set.
InitPass ==
    /\ pc = "scoring"
    /\ bikes_df \in BikeFeeds
    /\ bus_df = SampleBusStops
    /\ luas_df = SampleLuasStations
    /\ score_call = NoCall
    /\ cache_db = _setup_cache_database
    /\ candidate_locations \in Passes
    /\ num_locations = 0 /\ results = <<>>
    /\ recommendations_df = <<>> /\ tie_order = 0
    /\ NearestIdle

NextPass == ScoreCandidate

SpecPass == InitPass /\ [][NextPass]_vars

---------------------------------------------------------------------------
(* Properties of the grid search (SpecGrid). *)

\* C1: for num_locations >= 0 the search returns min(num_locations,
\* resolution^2) rows, and of every two adjacent rows the earlier one's
\* hub_score is at least the later one's.
C1_TopKByFallingScore ==
    (pc = "done" /\ num_locations >= 0) =>
        /\ Len(recommendations_df) = Min(num_locations, Resolution * Resolution)
        /\ \A a \in 1..(Len(recommendations_df) - 1) :
               recommendations_df[a].hub_score >= recommendations_df[a + 1].hub_score

\* C1 witness: a search asked for more rows than the lattice has returned the
\* whole lattice, its first row scoring above its last.
C1_Witness ==
    /\ pc = "done"
    /\ num_locations > Resolution * Resolution
    /\ Len(recommendations_df) = Resolution * Resolution
    /\ recommendations_df[1].hub_score
           > recommendations_df[Len(recommendations_df)].hub_score

\* The bounding box and the resolution the lattice claim names.
StatedBox == [north |-> 533700, south |-> 533200, east |-> -62200, west |-> -63000,
              resolution |-> 20]
\* Point k of the lattice the claim describes: row-major, step = span / 20.
StatedPoint(k) ==
    LET i == (k - 1) \div StatedBox.resolution
        j == (k - 1) % StatedBox.resolution
    IN  <<StatedBox.south
              + i * ((StatedBox.north - StatedBox.south) \div StatedBox.resolution),
          StatedBox.west
              + j * ((StatedBox.east - StatedBox.west) \div StatedBox.resolution)>>

\* C2: the lattice has 400 points, the first is (south, west), point (i, j)
\* is (south + i * lat_step, west + j * lng_step) with step = span / 20 and
\* 0 <= i, j < 20, and no point reaches the north or the east edge.
C2_HalfOpenLattice ==
    /\ pc \in {"scoring", "sort", "done"} => Len(candidate_locations) = 400
    /\ Len(candidate_locations) <= 400
    /\ candidate_locations # <<>> =>
           candidate_locations[1] = <<StatedBox.south, StatedBox.west>>
    /\ \A k \in 1..Len(candidate_locations) :
           /\ candidate_locations[k] = StatedPoint(k)
           /\ candidate_locations[k][1] < StatedBox.north
           /\ candidate_locations[k][2] < StatedBox.east

\* C2 witness: the lattice is complete and its last point is the one of
\* i = j = 19.
C2_Witness ==
    /\ pc = "scoring"
    /\ Len(candidate_locations) = 400
    /\ candidate_locations[400] = <<533675, -62240>>

\* The place of a result row's point in the lattice enumeration, from 1.
LatticeIndex(row) ==
    ((row.latitude - dublin_bounds.south) \div lat_step) * Resolution
        + ((row.longitude - dublin_bounds.west) \div lng_step) + 1

\* C3: rows of equal hub_score are returned in lattice enumeration order, and
\* where the truncation cuts through rows of equal hub_score it keeps the
\* earliest of them in that order.
C3_TiesKeepLatticeOrder ==
    (pc = "done" /\ recommendations_df # <<>>) =>
        LET n == Len(recommendations_df)
            last == recommendations_df[n]
        IN  /\ \A a \in 1..(n - 1) :
                   recommendations_df[a].hub_score = recommendations_df[a + 1].hub_score
                       => LatticeIndex(recommendations_df[a])
                              < LatticeIndex(recommendations_df[a + 1])
            /\ \A k \in 1..Len(results) :
                   (results[k].hub_score = last.hub_score /\ k < LatticeIndex(last))
                       => \E a \in 1..n : recommendations_df[a] = results[k]

---------------------------------------------------------------------------
(* Properties of the nearest-reference finder (SpecNearest). *)

\* The rows of the finder's reference sequence.
RefRows == 1..Len(transport_df)
\* The rows at the least distance from the finder's point.
NearestRows == {k \in RefRows : \A j \in RefRows : RefDistance(k) <= RefDistance(j)}

\* C4: for a non-empty reference set the finder returns, its distance_meters
\* is the distance to one of the references and is at most the distance to
\* every reference, and it returns only once the loop has visited every row.
C4_NearestDistanceIsMinimum ==
    (pc \in {"returned", "raised"} /\ transport_df # <<>>) =>
        /\ pc = "returned"
        /\ proximity.ok
        /\ scanned = Len(transport_df)
        /\ \E k \in RefRows : proximity.distance_meters = RefDistance(k)
        /\ \A k \in RefRows : proximity.distance_meters <= RefDistance(k)

\* C4 witness: the finder returned over two references of which the second
\* is strictly closer than the first.
C4_Witness ==
    /\ pc = "returned"
    /\ Len(transport_df) = 2
    /\ RefDistance(2) < RefDistance(1)
    /\ proximity.distance_meters = RefDistance(2)

\* C6: when several references are at the same least distance the finder
\* selects the first of them in sequence order.
C6_FirstOfEqualWins ==
    pc = "returned" =>
        /\ NearestRows # {}
        /\ nearest_transport =
               transport_df[CHOOSE k \in NearestRows : \A j \in NearestRows : k <= j]
        /\ proximity.nearest_station = StationLabel(nearest_transport)

\* C6 witness: the finder returned over two different references at the same
\* least distance.
C6_Witness ==
    /\ pc = "returned"
    /\ Cardinality(NearestRows) >= 2
    /\ \E j, k \in NearestRows : transport_df[j] # transport_df[k]
    /\ nearest_transport = transport_df[1]

---------------------------------------------------------------------------
(* Properties of the hub score calculator (Spec). *)

\* The least distance from the point of call to a row of df, computed over
\* the set of rows; float('inf') over no rows.
LeastDistance(call, df) ==
    LET ds == {geodesic_meters(call.lat, call.lng, df[k].latitude, df[k].longitude) :
                   k \in 1..Len(df)}
    IN  IF ds = {} THEN Inf ELSE CHOOSE d \in ds : \A e \in ds : d <= e

\* The values of column col in the rows of df at the least distance from the
\* point of call.
NearestLabels(call, df, col) ==
    {df[k][col] : k \in {j \in 1..Len(df) :
        geodesic_meters(call.lat, call.lng, df[j].latitude, df[j].longitude)
            = LeastDistance(call, df)}}

\* C5: the label the finder returns, and the scorer reports as nearest_bus and
\* nearest_luas, is the name of a reference at the least distance: its
\* stop_name for the bus dataset, its station_name for the rail dataset.
C5_LabelNamesNearest ==
    score_call.ret.ok =>
        /\ score_call.bus_proximity.nearest_station
               \in NearestLabels(score_call, score_call.bus, "stop_name")
        /\ score_call.ret.components.nearest_bus
               \in NearestLabels(score_call, score_call.bus, "stop_name")
        /\ score_call.luas_proximity.nearest_station
               \in NearestLabels(score_call, score_call.luas, "station_name")
        /\ score_call.ret.components.nearest_luas
               \in NearestLabels(score_call, score_call.luas, "station_name")

C8_EmptyBikeDataset ==
    (score_call # NoCall /\ score_call.bikes = <<>>
        /\ score_call.bus # <<>> /\ score_call.luas # <<>>) =>
        /\ score_call.ret.ok
        /\ score_call.ret.components.bike_demand = 0
        /\ score_call.ret.demand_score = 0
        /\ score_call.gap_locals.bike_gap = 10000
        /\ score_call.ret.gap_score =
               Round2(20 * ((10000 + Min(10000, 20 * LeastDistance(score_call, score_call.bus)))
                              \div 2))

\* C8 witness: a call over an empty bike dataset returned, at a point less
\* than 500 m from a bus stop.
C8_Witness ==
    /\ score_call.ret.ok
    /\ score_call.bikes = <<>>
    /\ LeastDistance(score_call, score_call.bus) < 500
    /\ score_call.ret.gap_score < 2000

\* The six scores of a returned breakdown.
Scores(ret) ==
    <<ret.total_score, ret.transport_score, ret.demand_score, ret.gap_score,
      ret.accessibility_score, ret.population_score>>

\* C9: the total and the five sub-scores of a point do not change when the
\* rows of the datasets are reordered: a call at the point the last call
\* scored, over the reordered datasets, returns the same scores.
C9_ScoresIgnoreRowOrder ==
    [][(score_call.ret.ok /\ score_call'.ret.ok
          /\ score_call'.lat = score_call.lat /\ score_call'.lng = score_call.lng)
       => Scores(score_call'.ret) = Scores(score_call.ret)]_vars

\* C9 witness: the caller holds the scores of a point with a positive demand
\* score, and the calculator's bike and bus rows have been reordered since.
C9_Witness ==
    /\ score_call.ret.ok
    /\ score_call.ret.demand_score > 0
    /\ Len(bikes_df) >= 2 /\ score_call.bikes # bikes_df
    /\ Len(bus_df) >= 2 /\ score_call.bus # bus_df

\* The gap of nearest distances d_bike and d_bus as the claim states it.
StatedGap(d_bike, d_bus) == (Min(10000, d_bike * 10) + Min(10000, d_bus * 20)) \div 2

\* C10, one call: the gap is (min(1, d_bike/1000) + min(1, d_bus/500)) / 2 of
\* the nearest bike and bus distances and lies in [0, 1].
GapAsStated(call) ==
    call.ret.ok =>
        /\ call.gap_locals.min_bike_distance = LeastDistance(call, call.bikes)
        /\ call.gap_locals.min_bus_distance = LeastDistance(call, call.bus)
        /\ call.gap_locals.gap = StatedGap(call.gap_locals.min_bike_distance,
                                           call.gap_locals.min_bus_distance)
        /\ call.gap_locals.gap >= 0 /\ call.gap_locals.gap <= 10000
        /\ call.ret.gap_score = Round2(20 * call.gap_locals.gap)

\* C10, two calls: the gap does not fall when neither distance falls, and
\* does not change with d_bike beyond 1000 m or with d_bus beyond 500 m.
GapMonotone(a, b) ==
    (a.ret.ok /\ b.ret.ok) =>
        LET ga == a.gap_locals
            gb == b.gap_locals
        IN  /\ (ga.min_bike_distance <= gb.min_bike_distance
                  /\ ga.min_bus_distance <= gb.min_bus_distance) => ga.gap <= gb.gap
            /\ (ga.min_bike_distance >= 1000 /\ gb.min_bike_distance >= 1000
                  /\ ga.min_bus_distance = gb.min_bus_distance) => ga.gap = gb.gap
            /\ (ga.min_bus_distance >= 500 /\ gb.min_bus_distance >= 500
                  /\ ga.min_bike_distance = gb.min_bike_distance) => ga.gap = gb.gap

\* C10: the infrastructure gap is the stated function of the nearest bike and
\* bus distances, within [0, 1], non-decreasing in each distance and constant
\* beyond the clamps, over every pair of successive calls.
C10_GapOfNearestDistances ==
    [][GapAsStated(score_call') /\ GapMonotone(score_call, score_call')
       /\ GapMonotone(score_call', score_call)]_vars

\* C10 witness: a call returned whose nearest bike station is beyond 1000 m
\* and whose nearest bus stop is within 500 m.
C10_Witness ==
    /\ score_call.ret.ok
    /\ score_call.gap_locals.min_bike_distance > 1000
    /\ score_call.gap_locals.min_bike_distance < Inf
    /\ score_call.gap_locals.min_bus_distance < 500
    /\ score_call.gap_locals.gap < 10000

\* The bus contribution at nearest bus distance d as the claim states it, in
\* 1e-2 score point.
StatedBus(d) ==
    IF d <= 200 THEN 1500
    ELSE IF d <= 500 THEN 1000
    ELSE Max(0, 1000 - (d - 500))

\* The rail contribution at nearest rail distance d as the claim states it.
StatedRail(d) ==
    IF d <= 500 THEN 2000 ELSE Max(0, 1500 - (d - 500))

\* C11, one call: the transport score is the stated bus contribution at the
\* nearest bus distance plus the stated rail contribution at the nearest rail
\* distance, and lies in [0, 35].
TransportAsStated(call) ==
    call.ret.ok =>
        /\ call.ret.components.bus_distance = LeastDistance(call, call.bus)
        /\ call.ret.components.luas_distance = LeastDistance(call, call.luas)
        /\ call.ret.transport_score =
               StatedBus(call.ret.components.bus_distance)
                   + StatedRail(call.ret.components.luas_distance)
        /\ call.ret.transport_score >= 0 /\ call.ret.transport_score <= 3500
        /\ BusContribution(call.bus_proximity) >= 0
        /\ BusContribution(call.bus_proximity) <= 150000
        /\ LuasContribution(call.luas_proximity) >= 0
        /\ LuasContribution(call.luas_proximity) <= 200000

\* C11, two calls: neither contribution rises when its distance does not fall.
TransportMonotone(a, b) ==
    (a.ret.ok /\ b.ret.ok) =>
        /\ a.ret.components.bus_distance <= b.ret.components.bus_distance
               => BusContribution(a.bus_proximity) >= BusContribution(b.bus_proximity)
        /\ a.ret.components.luas_distance <= b.ret.components.luas_distance
               => LuasContribution(a.luas_proximity) >= LuasContribution(b.luas_proximity)
        /\ (a.ret.components.bus_distance <= b.ret.components.bus_distance
              /\ a.ret.components.luas_distance <= b.ret.components.luas_distance)
               => a.ret.transport_score >= b.ret.transport_score

\* C11: the transport score is the sum of the stated bus and rail
\* contributions of the nearest bus and rail distances, lies in [0, 35], and
\* each contribution is non-increasing in its distance, over every pair of
\* successive calls.
C11_TransportScore ==
    [][TransportAsStated(score_call') /\ TransportMonotone(score_call, score_call')
       /\ TransportMonotone(score_call', score_call)]_vars

\* C11 witness: a call returned whose nearest bus stop is between 500 m and
\* 1500 m away and whose nearest rail stop is between 500 m and 2000 m away,
\* so that both contributions are on their decaying branch.
C11_Witness ==
    /\ score_call.ret.ok
    /\ score_call.ret.components.bus_distance > 500
    /\ score_call.ret.components.bus_distance < 1500
    /\ score_call.ret.components.luas_distance > 500
    /\ score_call.ret.components.luas_distance < 2000
    /\ score_call.ret.transport_score > 0
    /\ score_call.ret.transport_score < 2500

\* The rows of the call's bike dataset at most 1000 m from its point.
StationsWithin1000(call) ==
    {k \in 1..Len(call.bikes) :
        geodesic_meters(call.lat, call.lng, call.bikes[k].latitude,
                        call.bikes[k].longitude) <= 1000}

RECURSIVE WeightedSum(_, _)
\* The sum over the rows ks of availability_score * max(0, 1 - d / 1000), in
\* 1e-3.
WeightedSum(call, ks) ==
    IF ks = {} THEN 0
    ELSE LET k == CHOOSE j \in ks : TRUE
             d == geodesic_meters(call.lat, call.lng, call.bikes[k].latitude,
                                  call.bikes[k].longitude)
         IN  call.bikes[k].availability_score * Max(0, 1000 - d)
                 + WeightedSum(call, ks \ {k})

\* The raw bike demand as the claim states it, in 1e-3.
StatedRawDemand(call) ==
    WeightedSum(call, StationsWithin1000(call))
        \div Max(Cardinality(StationsWithin1000(call)), 1)

\* C12: the raw bike demand is the weighted sum over exactly the stations at
\* most 1000 m away divided by their number (by 1 when there are none), and
\* the demand score is min(raw / 20 * 25, 25), within [0, 25].
C12_BikeDemand ==
    score_call.ret.ok =>
        /\ score_call.ret.components.bike_demand = StatedRawDemand(score_call)
        /\ score_call.ret.demand_score =
               Round2(Min((StatedRawDemand(score_call) * 25) \div 2, 250000))
        /\ score_call.ret.demand_score >= 0
        /\ score_call.ret.demand_score <= 2500
        /\ StationsWithin1000(score_call) = {} => score_call.ret.demand_score = 0

\* C12 witness: a call returned over two bike stations, one within 1000 m and
\* one beyond, with a demand score strictly between 0 and 25.
C12_Witness ==
    /\ score_call.ret.ok
    /\ Len(score_call.bikes) = 2
    /\ Cardinality(StationsWithin1000(score_call)) = 1
    /\ score_call.ret.demand_score > 0
    /\ score_call.ret.demand_score < 2500

\* The sum of the five sub-scores a breakdown returns, in 1e-2 score point.
SumOfReturned(ret) ==
    ret.transport_score + ret.demand_score + ret.gap_score
        + ret.accessibility_score + ret.population_score

\* The sum of the five sub-scores of a call before they are rounded, in ticks,
\* from the call's lookups, raw bike demand and gap.
SumOfUnrounded(call) ==
    BusContribution(call.bus_proximity) + LuasContribution(call.luas_proximity)
        + Min((call.ret.components.bike_demand * 25) \div 2, 250000)
        + call.gap_locals.gap * 20
        + _calculate_accessibility_score(call.lat, call.lng) * 15
        + population_score

\* C13 as stated: the returned total_score equals the sum of the five returned
\* sub-scores, and population_score is 5.
C13_TotalIsSumOfReturned ==
    score_call.ret.ok =>
        /\ score_call.ret.total_score = SumOfReturned(score_call.ret)
        /\ score_call.ret.population_score = 500

\* C13 as amended: the returned total_score is the sum of the five sub-scores
\* before rounding, rounded to two decimals; it is within 0.02 of the sum of
\* the five returned (separately rounded) sub-scores; population_score is 5.
C13_TotalIsRoundedSum ==
    score_call.ret.ok =>
        /\ score_call.ret.total_score = Round2(SumOfUnrounded(score_call))
        /\ Abs(score_call.ret.total_score - SumOfReturned(score_call.ret)) <= 2
        /\ score_call.ret.population_score = 500

\* C13 witness: a call returned a total that is not the sum of the sub-scores
\* it returned.
C13_Witness ==
    /\ score_call.ret.ok
    /\ score_call.ret.total_score # SumOfReturned(score_call.ret)

---------------------------------------------------------------------------
(* Properties of a pass of scoring calls (SpecPass). *)

---------------------------------------------------------------------------
(* Properties of the bike dataset the collector hands over (SpecGrid). *)

\* C16: a bike station with total_capacity = 0 has utilization_rate 0 (or is
\* left out of the dataset), and no station of the dataset the scorer is
\* built over has an infinite or not-a-number utilization_rate.
C16_ZeroCapacityGuarded ==
    \A k \in 1..Len(bikes_df) :
        /\ bikes_df[k].utilization_rate.finite
        /\ bikes_df[k].total_capacity = 0 => bikes_df[k].utilization_rate.ratio = 0

---------------------------------------------------------------------------
(* The range of the scores (Spec). *)

\* C17: over non-empty bus and rail datasets and bike stations of
\* non-negative availability score the call returns a total_score in
\* [5, 100], with transport in [0, 35], demand in [0, 25], gap in [0, 20],
\* accessibility in [0, 15] and population 5.
C17_ScoreRanges ==
    (score_call # NoCall /\ score_call.bus # <<>> /\ score_call.luas # <<>>
        /\ \A k \in 1..Len(score_call.bikes) :
               score_call.bikes[k].availability_score >= 0) =>
        /\ score_call.ret.ok
        /\ score_call.ret.total_score >= 500 /\ score_call.ret.total_score <= 10000
        /\ score_call.ret.transport_score >= 0 /\ score_call.ret.transport_score <= 3500
        /\ score_call.ret.demand_score >= 0 /\ score_call.ret.demand_score <= 2500
        /\ score_call.ret.gap_score >= 0 /\ score_call.ret.gap_score <= 2000
        /\ score_call.ret.accessibility_score >= 0
        /\ score_call.ret.accessibility_score <= 1500
        /\ score_call.ret.population_score = 500

\* C17 witness: a call returned, over a bike dataset that is not empty, at a
\* point so far from every dataset that the transport, demand and
\* accessibility scores are at their least and the gap score at its most.
C17_Witness ==
    /\ score_call.ret.ok
    /\ score_call.bikes # <<>>
    /\ score_call.ret.transport_score = 0
    /\ score_call.ret.demand_score = 0
    /\ score_call.ret.accessibility_score = 0
    /\ score_call.ret.gap_score = 2000
    /\ score_call.ret.total_score = 2500

=============================================================================
